---- MODULE Spec2Model ----
(***************************************************************************)
(* A model of gdal2custommap: gdal2kml.py (tile layout, tile rectangles,   *)
(* geographic bounds, ground-overlay emission) and kml2kmz.py (reference   *)
(* resolution and archive packaging).                                      *)
(*                                                                         *)
(* Numbers.  The Python code computes with floats (best_case, r, the       *)
(* division in tile_sizes).  Every float here is a quotient of two small   *)
(* integers, and math.ceil / math.floor of such a quotient equals the      *)
(* exact ceiling / floor of the rational as long as the operands stay far  *)
(* below 2^53, which they do for every image a run can hold in memory.     *)
(* The model therefore keeps a quotient as numerator and denominator and   *)
(* rounds exactly.                                                         *)
(*                                                                         *)
(* Text.  A string is a sequence of one-character strings, so that         *)
(* formatting, percent-decoding, prefix removal and basename are computed  *)
(* character by character as the code computes them.                       *)
(***************************************************************************)
EXTENDS Integers, Sequences, FiniteSets, TLC

\* ------------------------------------------------------------------ bounds

\* Largest image width and height, in pixels.
MaxDim == 6

\* Largest target tile edge (the -t option).
MaxTarget == 4

\* Largest crop border (the -c option).
MaxBorder == 1

\* Largest geotransform origin coordinate drawn for the bounds computation.
MaxOrigin == 1

\* Largest pixel width and height (absolute value) drawn for a geotransform.
MaxScale == 2

\* Largest pixel offset and largest pixel size of a rectangle handed to the
\* bounds computation on its own.
MaxOff == 2

MaxSize == 2

\* Most href nodes in a document handed to kml2kmz.
MaxRefs == 2

\* ------------------------------------------------------------- arithmetic

\* math.ceil(n / d) for integers n and d > 0.
Ceil(n, d) == -((-n) \div d)

\* math.floor(n / d) for integers n and d # 0.
Floor(n, d) == IF d > 0 THEN n \div d ELSE (-n) \div (-d)

\* ------------------------------------------------------------------- text

Digit(k) == <<"0", "1", "2", "3", "4", "5", "6", "7", "8", "9">>[k + 1]

\* Python's format of a non-negative integer (f'{n}', f'{n:d}').
RECURSIVE Str(_)
Str(n) == IF n < 10 THEN <<Digit(n)>> ELSE Str(n \div 10) \o <<Digit(n % 10)>>

\* The printable ASCII characters, from code 32 to code 126 (the quote, the
\* backslash and the backtick under a name of their own).
Ascii ==
    <<
       " ", "!", "<quote>", "#", "$", "%", "&", "'", "(", ")", "*", "+", ",", "-", ".", "/",
       "0", "1", "2", "3", "4", "5", "6", "7", "8", "9", ":", ";", "<", "=", ">", "?",
       "@", "A", "B", "C", "D", "E", "F", "G", "H", "I", "J", "K", "L", "M", "N", "O",
       "P", "Q", "R", "S", "T", "U", "V", "W", "X", "Y", "Z", "[", "<backslash>", "]", "^", "_",
       "<backtick>", "a", "b", "c", "d", "e", "f", "g", "h", "i", "j", "k", "l", "m", "n", "o",
       "p", "q", "r", "s", "t", "u", "v", "w", "x", "y", "z", "{", "|", "}", "~" >>

\* chr(n); one stand-in for every character outside printable ASCII.
Chr(n) == IF n \in 32..126 THEN Ascii[n - 31] ELSE "<non-printable>"

\* The value of a hexadecimal digit, as int(s, 16) reads it.
HexDigits ==
    <<"0", "1", "2", "3", "4", "5", "6", "7", "8", "9", "a", "b", "c", "d", "e", "f">>

UpperHexDigits ==
    <<"0", "1", "2", "3", "4", "5", "6", "7", "8", "9", "A", "B", "C", "D", "E", "F">>

IsHex(c) == \E k \in 1..16 : HexDigits[k] = c \/ UpperHexDigits[k] = c

HexVal(c) == (CHOOSE k \in 1..16 : HexDigits[k] = c \/ UpperHexDigits[k] = c) - 1

\* s starts with pre.
StartsWith(s, pre) == Len(s) >= Len(pre) /\ SubSeq(s, 1, Len(pre)) = pre

\* s from position k on.
From(s, k) == SubSeq(s, k, Len(s))

\* s.replace(old, ''): every occurrence of old, left to right, is dropped.
RECURSIVE Remove(_, _)
Remove(s, old) ==
    IF s = <<>> THEN <<>>
    ELSE IF StartsWith(s, old) THEN Remove(From(s, Len(old) + 1), old)
    ELSE <<s[1]>> \o Remove(Tail(s), old)

\* The position of the last "/" of p, or 0.
RECURSIVE LastSlash(_)
LastSlash(p) ==
    IF p = <<>> THEN 0
    ELSE IF p[Len(p)] = "/" THEN Len(p)
    ELSE LastSlash(SubSeq(p, 1, Len(p) - 1))

\* p without its trailing slashes.
RECURSIVE RStripSlash(_)
RStripSlash(p) ==
    IF p # <<>> /\ p[Len(p)] = "/" THEN RStripSlash(SubSeq(p, 1, Len(p) - 1)) ELSE p

\* os.path.basename(p)
Basename(p) == From(p, LastSlash(p) + 1)

\* os.path.dirname(p): the head up to the last slash, its trailing slashes
\* stripped unless it consists of slashes only.
Dirname(p) ==
    LET head == SubSeq(p, 1, LastSlash(p))
    IN  IF RStripSlash(head) = <<>> THEN head ELSE RStripSlash(head)

\* A path as the file system reads it: runs of slashes count as one, and a
\* trailing slash is dropped.
RECURSIVE Squeeze(_)
Squeeze(p) ==
    IF Len(p) < 2 THEN p
    ELSE IF p[1] = "/" /\ p[2] = "/" THEN Squeeze(Tail(p))
    ELSE <<p[1]>> \o Squeeze(Tail(p))

\* ------------------------------------------------------------------ state

VARIABLES
    \* gdal2kml.create_kml
    img_size,       \* <<RasterXSize, RasterYSize>>
    border,         \* crop border
    tile_size,      \* target tile edge
    geotransform,   \* the image's six coefficients
    exclude,        \* the exclusion list: a set of lines
    pc,             \* "start", "loop", "done", "failed"
    cropped_size,
    tile_layout,    \* <<columns, rows>>
    tile_sizes,     \* <<tile width, tile height>>
    t_x, t_y,       \* the loop's position
    calls,          \* the rectangles handed to create_tile, in order
    files,          \* the tile files written: a set of <<t_x, t_y>>
    entries,        \* the ground overlays written to the document, in order
    range_error,    \* 'Pixel range outside image data!' was logged
    error,          \* the exception that ended the run, or "none"
    \* gdal2kml.create_tile's bounds, on its own
    p_pc, p_offset, p_size, p_gt, p_result,
    \* kml2kmz
    z_pc,           \* "start", "loop", "done", "failed"
    cwd,            \* the working directory of the run
    src_file,       \* args.src_file
    fs,             \* the files on disk: absolute path -> content
    doc,            \* the href values of the source document, in order
    hrefs,          \* the href values of the parsed document (rewritten in place)
    node,           \* the number of nodes the loop is done with
    resolved,       \* per node done, the absolute path of the image stored
    zip_state,      \* the file at args.outfile: "absent", "open", "closed", "unfinished"
    zip_entries,    \* the archive's entries, in order: name and content
    z_error,        \* what ended the run, or "none"
    err_path,       \* the path the error message names
    run,            \* 1, or 2 for the run on the first run's extracted archive
    first           \* the first run's rewritten hrefs and archive entries

kmlVars == <<img_size, border, tile_size, geotransform, exclude, pc, cropped_size,
             tile_layout, tile_sizes, t_x, t_y, calls, files, entries,
             range_error, error>>

projVars == <<p_pc, p_offset, p_size, p_gt, p_result>>

kmzVars == <<z_pc, cwd, src_file, fs, doc, hrefs, node, resolved, zip_state,
             zip_entries, z_error, err_path, run, first>>

vars == <<kmlVars, projVars, kmzVars>>

\* ------------------------------------------------------------ gdal2kml.py

\* results.sort(key=lambda x: x[2]) is a stable sort by the third component:
\* each element, taken in list order, goes behind every element whose total is
\* not larger than its own.
RECURSIVE InsertByTotal(_, _)
InsertByTotal(x, s) ==
    IF s = <<>> THEN <<x>>
    ELSE IF x[3] < s[1][3] THEN <<x>> \o s
    ELSE <<s[1]>> \o InsertByTotal(x, Tail(s))

RECURSIVE SortByTotal(_)
SortByTotal(s) ==
    IF s = <<>> THEN <<>>
    ELSE InsertByTotal(s[Len(s)], SortByTotal(SubSeq(s, 1, Len(s) - 1)))

\* The four candidates of the brute force, in the order they are appended.
Results(canvas_shape, target) ==
    LET num == canvas_shape[1] * canvas_shape[2]
        den == target * target
        a_up == [i \in 1..2 |-> Ceil(canvas_shape[i], target)]
        b_up == [i \in 1..2 |-> Ceil(num, den * a_up[i])]
        a_down == [i \in 1..2 |-> Floor(canvas_shape[i], target)]
        b_down == [i \in 1..2 |-> Ceil(num, den * a_down[i])]
    IN  << <<a_up[1], b_up[1], a_up[1] * b_up[1]>>,
           <<a_down[1], b_down[1], a_down[1] * b_down[1]>>,
           <<a_up[2], b_up[2], a_up[2] * b_up[2]>>,
           <<a_down[2], b_down[2], a_down[2] * b_down[2]>> >>

tiles_unsorted(canvas_shape, target) ==
    LET num == canvas_shape[1] * canvas_shape[2]
        den == target * target
    IN  IF canvas_shape[1] <= target THEN <<1, Ceil(num, den)>>
        ELSE IF canvas_shape[2] <= target THEN <<Ceil(num, den), 1>>
        ELSE LET best == Results(canvas_shape, target)[1]
             IN  <<best[1], best[2]>>

tiles_swapped(canvas_shape, target) ==
    LET num == canvas_shape[1] * canvas_shape[2]
        den == target * target
    IN  IF canvas_shape[1] <= target THEN <<Ceil(num, den), 1>>
        ELSE IF canvas_shape[2] <= target THEN <<1, Ceil(num, den)>>
        ELSE LET best == SortByTotal(Results(canvas_shape, target))[1]
             IN  <<best[1], best[2]>>

\* tiles(canvas_shape, target), for target > 0.
tiles(canvas_shape, target) ==
    LET num == canvas_shape[1] * canvas_shape[2]
        den == target * target
    IN  IF canvas_shape[1] <= target THEN <<1, Ceil(num, den)>>
        ELSE IF canvas_shape[2] <= target THEN <<Ceil(num, den), 1>>
        ELSE LET best == SortByTotal(Results(canvas_shape, target))[1]
             IN  <<best[1], best[2]>>

transform_swapped(x, y, gt) ==
    <<gt[1] + y * gt[2] + x * gt[3], gt[4] + y * gt[5] + x * gt[6]>>

\* transform(x, y, geotransform); the tuple is 1-based here, 0-based in Python.
transform(x, y, gt) ==
    <<gt[1] + x * gt[2] + y * gt[3], gt[4] + x * gt[5] + y * gt[6]>>

\* create_tile from the geotransform on: the exception for a transform with
\* rotation (raised: no bounds are returned), else the bounds of the rectangle.
Bounds(offset, size, gt) ==
    IF gt[3] # 0 \/ gt[5] # 0
    THEN [raised |-> TRUE, north |-> 0, east |-> 0, south |-> 0, west |-> 0]
    ELSE LET nw == transform(offset[1], offset[2], gt)
             se == transform(offset[1] + size[1], offset[2] + size[2], gt)
         IN  [raised |-> FALSE, north |-> nw[2], east |-> se[1],
              south |-> se[2], west |-> nw[1]]

\* The lines of the .exclude file drawn for a run, each after rstrip().
ExcludeLines ==
    { <<"0", ",", "0">>, <<"0", ",", "1">>, <<"1", ",", "0">>, <<"1", ",", " ", "0">> }

\* The geotransforms drawn for a whole run: north-up, rotated by rows, rotated
\* by columns.
KmlGeotransforms ==
    { <<0, 1, 0, 0, 0, -1>>, <<0, 1, 1, 0, 0, -1>>, <<0, 1, 0, 0, 1, -1>> }

KmlInit ==
    /\ img_size \in (1..MaxDim) \X (1..MaxDim)
    /\ border \in 0..MaxBorder
    /\ tile_size \in 1..MaxTarget
    /\ geotransform \in KmlGeotransforms
    /\ exclude \in SUBSET ExcludeLines
    /\ pc = "start"
    /\ cropped_size = <<0, 0>>
    /\ tile_layout = <<0, 0>>
    /\ tile_sizes = <<0, 0>>
    /\ t_x = 0
    /\ t_y = 0
    /\ calls = <<>>
    /\ files = {}
    /\ entries = <<>>
    /\ range_error = FALSE
    /\ error = "none"

ProjIdle ==
    /\ p_pc = "idle"
    /\ p_offset = <<0, 0>>
    /\ p_size = <<0, 0>>
    /\ p_gt = <<0, 0, 0, 0, 0, 0>>
    /\ p_result = [raised |-> FALSE, north |-> 0, east |-> 0, south |-> 0, west |-> 0]

CroppedSize(size, b) == <<size[1] - b * 2, size[2] - b * 2>>

TileSizes_ceil(cropped, layout) ==
    <<Ceil(cropped[1], layout[1]), Ceil(cropped[2], layout[2])>>

\* tile_sizes, for a layout without a zero: int(math.floor(c / n)) per axis.
TileSizes(cropped, layout) ==
    <<Floor(cropped[1], layout[1]), Floor(cropped[2], layout[2])>>

\* create_kml up to the loop: the crop, the layout and the tile size.  A
\* layout with a zero (a canvas with a zero dimension) raises
\* ZeroDivisionError before the document is opened.
CreateKml ==
    /\ pc = "start"
    /\ LET cropped == CroppedSize(img_size, border)
           layout == tiles(cropped, tile_size)
       IN  /\ cropped_size' = cropped
           /\ tile_layout' = layout
           /\ IF layout[1] = 0 \/ layout[2] = 0
              THEN /\ pc' = "failed"
                   /\ error' = "ZeroDivisionError"
                   /\ tile_sizes' = tile_sizes
              ELSE /\ pc' = "loop"
                   /\ error' = error
                   /\ tile_sizes' = TileSizes(cropped, layout)
    /\ UNCHANGED <<projVars, kmzVars, img_size, border, tile_size, geotransform, exclude, t_x, t_y,
                   calls, files, entries, range_error>>

TileId_swapped(ty, tx) == Str(tx) \o <<",">> \o Str(ty)

\* tile = f'{t_y},{t_x}'
TileId(ty, tx) == Str(ty) \o <<",">> \o Str(tx)

SrcCorner(tx, ty) == <<border + tx * tile_sizes[1], border + ty * tile_sizes[2]>>

\* src_size: both adjustments at the canvas edge assign the tile size again.
SrcSize(corner) ==
    << IF corner[1] + tile_sizes[1] > img_size[1] - border
       THEN tile_sizes[1] ELSE tile_sizes[1],
       IF corner[2] + tile_sizes[2] > img_size[2] - border
       THEN tile_sizes[2] ELSE tile_sizes[2] >>

\* The loop has a cell left: for t_y in range(rows), for t_x in range(columns).
InLoop == pc = "loop" /\ t_y < tile_layout[2] /\ t_x < tile_layout[1]

Advance ==
    IF t_x + 1 < tile_layout[1]
    THEN t_x' = t_x + 1 /\ t_y' = t_y
    ELSE t_x' = 0 /\ t_y' = t_y + 1

\* An excluded cell: nothing is read, written or emitted.
ExcludeTile ==
    /\ InLoop
    /\ TileId(t_y, t_x) \in exclude
    /\ Advance
    /\ UNCHANGED <<projVars, kmzVars, img_size, border, tile_size, geotransform, exclude, pc,
                   cropped_size, tile_layout, tile_sizes, calls, files, entries,
                   range_error, error>>

\* A cell that is not excluded: create_tile writes its file and returns its
\* bounds, and the ground overlay is written.  GDAL creates no dataset of a
\* size below 1x1, so create_tile fails before writing; a transform with
\* rotation raises after the tile file is written.
EmitTile ==
    /\ InLoop
    /\ TileId(t_y, t_x) \notin exclude
    /\ LET src_corner == SrcCorner(t_x, t_y)
           src_size == SrcSize(src_corner)
           bounds == Bounds(src_corner, src_size, geotransform)
       IN  /\ range_error' = (range_error \/ src_corner[1] + src_size[1] > img_size[1])
           /\ calls' = Append(calls, [t_x |-> t_x, t_y |-> t_y,
                                      offset |-> src_corner, size |-> src_size])
           /\ IF src_size[1] < 1 \/ src_size[2] < 1
              THEN /\ pc' = "failed"
                   /\ error' = "gdal"
                   /\ UNCHANGED <<files, entries, t_x, t_y>>
              ELSE IF bounds.raised
              THEN /\ pc' = "failed"
                   /\ error' = "rotation"
                   /\ files' = files \cup {<<t_x, t_y>>}
                   /\ UNCHANGED <<entries, t_x, t_y>>
              ELSE /\ files' = files \cup {<<t_x, t_y>>}
                   /\ entries' = Append(entries, [t_x |-> t_x, t_y |-> t_y,
                                                  bounds |-> bounds])
                   /\ Advance
                   /\ UNCHANGED <<pc, error>>
    /\ UNCHANGED <<projVars, kmzVars, img_size, border, tile_size, geotransform, exclude,
                   cropped_size, tile_layout, tile_sizes>>

\* The loop is over: the folder is closed and the document written out.
FinishKml ==
    /\ pc = "loop"
    /\ ~InLoop
    /\ pc' = "done"
    /\ UNCHANGED <<projVars, kmzVars, img_size, border, tile_size, geotransform, exclude,
                   cropped_size, tile_layout, tile_sizes, t_x, t_y, calls, files,
                   entries, range_error, error>>

KmlNext == CreateKml \/ ExcludeTile \/ EmitTile \/ FinishKml

\* ------------------------------------------- create_tile's bounds, alone

\* No run of create_kml: its state stays as constructed.
KmlIdle ==
    /\ img_size = <<1, 1>>
    /\ border = 0
    /\ tile_size = 1
    /\ geotransform = <<0, 1, 0, 0, 0, -1>>
    /\ exclude = {}
    /\ pc = "idle"
    /\ cropped_size = <<0, 0>>
    /\ tile_layout = <<0, 0>>
    /\ tile_sizes = <<0, 0>>
    /\ t_x = 0
    /\ t_y = 0
    /\ calls = <<>>
    /\ files = {}
    /\ entries = <<>>
    /\ range_error = FALSE
    /\ error = "none"

\* The transforms drawn: origin, pixel width, row rotation, origin, column
\* rotation, pixel height (north-up when negative).
Rotations == {-1, 0, 1}

PixelHeights == ((0 - MaxScale)..(0 - 1)) \cup {1}

Geotransforms ==
    ((0 - 1)..MaxOrigin) \X (1..MaxScale) \X Rotations
        \X ((0 - 1)..MaxOrigin) \X Rotations \X PixelHeights

ProjInit ==
    /\ p_pc = "start"
    /\ p_offset \in (0..MaxOff) \X (0..MaxOff)
    /\ p_size \in (1..MaxSize) \X (1..MaxSize)
    /\ p_gt \in Geotransforms
    /\ p_result = [raised |-> FALSE, north |-> 0, east |-> 0, south |-> 0, west |-> 0]

\* create_tile(img, filename, offset, size) from img.GetGeoTransform() on.
ComputeBounds ==
    /\ p_pc = "start"
    /\ p_result' = Bounds(p_offset, p_size, p_gt)
    /\ p_pc' = "done"
    /\ UNCHANGED <<kmlVars, kmzVars, p_offset, p_size, p_gt>>

ProjNext == ComputeBounds

\* -------------------------------------------------------------- kml2kmz.py

\* The character class of urldecode's pattern, [0-9a-hA-H]: it lets g, h, G
\* and H through to int(s, 16).
InRexClass(c) == IsHex(c) \/ c \in {"g", "h", "G", "H"}

\* The pattern %([0-9a-hA-H][0-9a-hA-H]) matches at the head of s.
RexMatches(s) ==
    Len(s) >= 3 /\ s[1] = "%" /\ InRexClass(s[2]) /\ InRexClass(s[3])

\* htc(m) = chr(int(m.group(1), 16))
htc(c1, c2) == Chr(16 * HexVal(c1) + HexVal(c2))

\* int(m.group(1), 16) raises ValueError for some match of the pattern in url.
RECURSIVE UrldecodeRaises(_)
UrldecodeRaises(url) ==
    IF url = <<>> THEN FALSE
    ELSE IF RexMatches(url)
    THEN ~IsHex(url[2]) \/ ~IsHex(url[3]) \/ UrldecodeRaises(From(url, 4))
    ELSE UrldecodeRaises(Tail(url))

\* urldecode(url): rex.sub(htc, url) replaces the matches found in one pass
\* from left to right; what a replacement yields is not scanned again.
RECURSIVE urldecode(_)
urldecode(url) ==
    IF url = <<>> THEN <<>>
    ELSE IF RexMatches(url) THEN <<htc(url[2], url[3])>> \o urldecode(From(url, 4))
    ELSE <<url[1]>> \o urldecode(Tail(url))

FileScheme == <<"f", "i", "l", "e", ":", "/", "/", "/">>

FilesDir == <<"f", "i", "l", "e", "s", "/">>

DocName == <<"d", "o", "c", ".", "k", "m", "l">>

\* The absolute path a path names in the working directory wd.
AbsPath(p, wd) ==
    IF p # <<>> /\ p[1] = "/" THEN Squeeze(p) ELSE Squeeze(wd \o <<"/">> \o p)

\* os.path.exists(p), for a p that names no directory.
Exists(p, wd, disk) == p # <<>> /\ AbsPath(p, wd) \in DOMAIN disk

\* img = urldecode(href.nodeValue).replace('file:///', '')
ImgOf(href) == Remove(urldecode(href), FileScheme)

\* The image path the loop settles on for an href: img as decoded, or, when
\* that does not exist, base + '/' + img.
Located(href, wd, src, disk) ==
    LET img == ImgOf(href)
    IN  IF Exists(img, wd, disk) THEN img ELSE Dirname(src) \o <<"/">> \o img

\* filename = f'files/{os.path.basename(img)}'
StoredName(img) == FilesDir \o Basename(img)

PathTmpAB == <<"/", "t", "m", "p", "/", "a", " ", "b", ".", "j", "p", "g">>

PathTA == <<"/", "w", "/", "t", "/", "a", ".", "j", "p", "g">>

PathTPct == <<"/", "w", "/", "t", "/", "a", "%", "4", "1", ".", "j", "p", "g">>

PathTAA == <<"/", "w", "/", "t", "/", "a", "A", ".", "j", "p", "g">>

PathUA == <<"/", "w", "/", "u", "/", "a", ".", "j", "p", "g">>

PathDoc == <<"/", "w", "/", "d", "o", "c", ".", "k", "m", "l">>

PathOutDoc == <<"/", "w", "/", "o", "u", "t", "/", "d", "o", "c", ".", "k", "m", "l">>

HrefFileUrl == <<"f", "i", "l", "e", ":", "/", "/", "/", "t", "m", "p", "/", "a", "%", "2", "0", "b", ".", "j", "p", "g">>

HrefPlain == <<"t", "/", "a", ".", "j", "p", "g">>

HrefPercentName == <<"t", "/", "a", "%", "2", "5", "4", "1", ".", "j", "p", "g">>

HrefUpperName == <<"t", "/", "a", "A", ".", "j", "p", "g">>

HrefSameBasename == <<"u", "/", "a", ".", "j", "p", "g">>

HrefMissing == <<"t", "/", "g", "o", "n", "e", ".", "j", "p", "g">>

HrefBadEscape == <<"t", "/", "a", "%", "g", "h", ".", "j", "p", "g">>

\* The disk of a first run: five images and the document at two places,
\* each file's content named after the file.
Disk ==
    [p \in {PathTmpAB, PathTA, PathTPct, PathTAA, PathUA, PathDoc, PathOutDoc} |-> p]

\* The hrefs a document is drawn from: a file URL of an absolute path, plain
\* relative paths (one to a name holding a percent sign and two hex digits,
\* one to the name that text decodes to, one to a second image called a.jpg),
\* a path to no file, and an escape the pattern accepts but int() does not.
HrefPool ==
    {HrefFileUrl, HrefPlain, HrefPercentName, HrefUpperName, HrefSameBasename,
     HrefMissing, HrefBadEscape}

Documents == UNION {[1..n -> HrefPool] : n \in 0..MaxRefs}

\* How the tool is started: the working directory and src_file.
Invocations ==
    { <<<<"/", "w">>, <<"d", "o", "c", ".", "k", "m", "l">>>>,
      <<<<"/", "w">>, <<"o", "u", "t", "/", "d", "o", "c", ".", "k", "m", "l">>>>,
      <<<<"/", "w">>, <<"/", "w", "/", "d", "o", "c", ".", "k", "m", "l">>>>,
      <<<<"/">>, <<"/", "w", "/", "o", "u", "t", "/", "d", "o", "c", ".", "k", "m", "l">>>>,
      <<<<"/">>, <<"d", "o", "c", ".", "k", "m", "l">>>> }

\* Where the first run's archive is unpacked for the second run.
ExtractDir == <<"/", "x">>

KmzInit ==
    /\ z_pc = "start"
    /\ \E inv \in Invocations : cwd = inv[1] /\ src_file = inv[2]
    /\ fs = Disk
    /\ doc \in Documents
    /\ hrefs = doc
    /\ node = 0
    /\ resolved = <<>>
    /\ zip_state = "absent"
    /\ zip_entries = <<>>
    /\ z_error = "none"
    /\ err_path = <<>>
    /\ run = 1
    /\ first = [hrefs |-> <<>>, entries |-> <<>>]

\* No run of kml2kmz.
KmzIdle ==
    /\ z_pc = "idle"
    /\ cwd = <<"/">>
    /\ src_file = <<>>
    /\ fs = Disk
    /\ doc = <<>>
    /\ hrefs = <<>>
    /\ node = 0
    /\ resolved = <<>>
    /\ zip_state = "absent"
    /\ zip_entries = <<>>
    /\ z_error = "none"
    /\ err_path = <<>>
    /\ run = 1
    /\ first = [hrefs |-> <<>>, entries |-> <<>>]

\* The source document is not there: a usage error before the archive is
\* created.
NoSource ==
    /\ z_pc = "start"
    /\ ~Exists(src_file, cwd, fs)
    /\ z_pc' = "failed"
    /\ z_error' = "usage"
    /\ err_path' = src_file
    /\ UNCHANGED <<kmlVars, projVars, cwd, src_file, fs, doc, hrefs, node, resolved,
                   zip_state, zip_entries, run, first>>

\* zipfile.ZipFile(args.outfile, 'w') creates the archive file, empty; the
\* document is parsed.
OpenArchive ==
    /\ z_pc = "start"
    /\ Exists(src_file, cwd, fs)
    /\ z_pc' = "loop"
    /\ zip_state' = "open"
    /\ zip_entries' = <<>>
    /\ hrefs' = doc
    /\ node' = 0
    /\ UNCHANGED <<kmlVars, projVars, cwd, src_file, fs, doc, resolved, z_error,
                   err_path, run, first>>

\* One href node whose image is found: it is stored under files/ and the node
\* rewritten.
StoreImage ==
    /\ z_pc = "loop"
    /\ node < Len(hrefs)
    /\ ~UrldecodeRaises(hrefs[node + 1])
    /\ LET img == Located(hrefs[node + 1], cwd, src_file, fs)
           filename == StoredName(img)
       IN  /\ Exists(img, cwd, fs)
           /\ zip_entries' = Append(zip_entries,
                                    [name |-> filename, content |-> fs[AbsPath(img, cwd)]])
           /\ resolved' = Append(resolved, AbsPath(img, cwd))
           /\ hrefs' = [hrefs EXCEPT ![node + 1] = filename]
           /\ node' = node + 1
    /\ UNCHANGED <<kmlVars, projVars, z_pc, cwd, src_file, fs, doc, zip_state, z_error,
                   err_path, run, first>>

\* One href node whose image is found neither as given nor under the
\* document's directory (parser.error exits), or whose escape int() rejects
\* (ValueError).  Nothing closes the archive: whether it is finished is up to
\* the interpreter running ZipFile.__del__ on exit, which writes the
\* directory of the entries stored so far.
FailOnImage ==
    /\ z_pc = "loop"
    /\ node < Len(hrefs)
    /\ IF UrldecodeRaises(hrefs[node + 1])
       THEN /\ z_error' = "ValueError"
            /\ err_path' = <<>>
       ELSE LET img == Located(hrefs[node + 1], cwd, src_file, fs)
            IN  /\ ~Exists(img, cwd, fs)
                /\ z_error' = "missing"
                /\ err_path' = img
    /\ z_pc' = "failed"
    /\ zip_state' \in {"closed", "unfinished"}
    /\ UNCHANGED <<kmlVars, projVars, cwd, src_file, fs, doc, hrefs, node, resolved,
                   zip_entries, run, first>>

\* After the last node: the rewritten document is stored as doc.kml and the
\* archive closed.
StoreDocument ==
    /\ z_pc = "loop"
    /\ node = Len(hrefs)
    /\ zip_entries' = Append(zip_entries, [name |-> DocName, content |-> hrefs])
    /\ zip_state' = "closed"
    /\ z_pc' = "done"
    /\ UNCHANGED <<kmlVars, projVars, cwd, src_file, fs, doc, hrefs, node, resolved,
                   z_error, err_path, run, first>>

\* The content the archive's entry of that name unpacks to: the last one
\* stored under the name.
UnpackedContent(es, name) ==
    es[CHOOSE k \in 1..Len(es) :
          es[k].name = name /\ \A j \in (k + 1)..Len(es) : es[j].name # name].content

\* The first run's archive is unpacked into a fresh directory, doc.kml next
\* to files/, and the tool is started on the unpacked document, from that
\* directory or from elsewhere.
Extract ==
    /\ z_pc = "done"
    /\ run = 1
    /\ LET names == {zip_entries[k].name : k \in 1..Len(zip_entries)}
           unpacked == {AbsPath(n, ExtractDir) : n \in names}
           NameOf(p) == CHOOSE n \in names : AbsPath(n, ExtractDir) = p
       IN  fs' = [p \in DOMAIN fs \cup unpacked |->
                    IF p \in unpacked THEN UnpackedContent(zip_entries, NameOf(p))
                    ELSE fs[p]]
    /\ \/ cwd' = ExtractDir /\ src_file' = DocName
       \/ cwd' = cwd /\ src_file' = ExtractDir \o <<"/">> \o DocName
    /\ doc' = hrefs
    /\ hrefs' = hrefs
    /\ first' = [hrefs |-> hrefs, entries |-> zip_entries]
    /\ run' = 2
    /\ z_pc' = "start"
    /\ node' = 0
    /\ resolved' = <<>>
    /\ zip_state' = "absent"
    /\ zip_entries' = <<>>
    /\ UNCHANGED <<kmlVars, projVars, z_error, err_path>>

KmzNext == NoSource \/ OpenArchive \/ StoreImage \/ FailOnImage \/ StoreDocument \/ Extract

\* --------------------------------------------------------- specifications

InitKml ==
    /\ KmlInit
    /\ ProjIdle
    /\ KmzIdle

\* A run of gdal2kml.py's create_kml.
SpecKml == InitKml /\ [][KmlNext]_vars

InitProj ==
    /\ KmlIdle
    /\ ProjInit
    /\ KmzIdle

\* create_tile's bounds for every rectangle and transform drawn.
SpecProj == InitProj /\ [][ProjNext]_vars

InitKmz ==
    /\ KmlIdle
    /\ ProjIdle
    /\ KmzInit

\* A run of kml2kmz.py, and a second run on what the first one packed.
SpecKmz == InitKmz /\ [][KmzNext]_vars

\* ---------------------------------------------------- properties: gdal2kml

\* The canvas has positive dimensions.
PositiveCanvas == cropped_size[1] > 0 /\ cropped_size[2] > 0

\* The least k with k * d >= n, and the greatest k with k * d <= n, found by
\* search (d > 0).
LeastMultiple(n, d) ==
    CHOOSE k \in (0 - MaxDim * MaxDim)..(MaxDim * MaxDim) : k * d >= n /\ (k - 1) * d < n

GreatestMultiple(n, d) ==
    CHOOSE k \in 0..MaxDim : k * d <= n /\ (k + 1) * d > n

\* Candidate i of the brute force for the canvas and target of the run:
\* the driving count and the count derived from it.
Driving(i) ==
    CASE i = 1 -> LeastMultiple(cropped_size[1], tile_size)
      [] i = 2 -> GreatestMultiple(cropped_size[1], tile_size)
      [] i = 3 -> LeastMultiple(cropped_size[2], tile_size)
      [] i = 4 -> GreatestMultiple(cropped_size[2], tile_size)

Derived(i) ==
    LeastMultiple(cropped_size[1] * cropped_size[2], tile_size * tile_size * Driving(i))

Total(i) == Driving(i) * Derived(i)

\* C1: when both canvas dimensions exceed the target edge, the layout is the
\* first candidate in generation order whose total cell count is minimal: no
\* candidate has a smaller total, and every earlier candidate has a larger one.
C1_FirstMinimalCandidate ==
    (pc # "start" /\ cropped_size[1] > tile_size /\ cropped_size[2] > tile_size)
    => \E i \in 1..4 :
          /\ tile_layout = <<Driving(i), Derived(i)>>
          /\ \A j \in 1..4 : Total(j) >= Total(i)
          /\ \A j \in 1..(i - 1) : Total(j) > Total(i)

\* C1's case: the layout was solved for a canvas larger than the target on
\* both axes, and a later candidate with a different layout ties the minimum.
C1_Witness ==
    /\ pc = "done"
    /\ cropped_size[1] > tile_size /\ cropped_size[2] > tile_size
    /\ \E j \in 2..4 :
          /\ Total(j) = tile_layout[1] * tile_layout[2]
          /\ <<Driving(j), Derived(j)>> # tile_layout

\* C2: the tile's pixel width and height are at most the target edge, give
\* or take one pixel of rounding.
C2_TileWithinTarget ==
    (pc \in {"loop", "done"} /\ PositiveCanvas)
    => /\ tile_sizes[1] <= tile_size + 1
       /\ tile_sizes[2] <= tile_size + 1

\* The count N of the trivial cases: the ceiling of area / target^2.
TrivialCount ==
    LeastMultiple(cropped_size[1] * cropped_size[2], tile_size * tile_size)

\* C3: a canvas no wider than the target gets the layout (1, N); a wider
\* canvas no higher than the target gets (N, 1); N is the ceiling of
\* area / target^2, and at least 1 for a canvas with positive dimensions.
C3_TrivialLayouts ==
    pc # "start"
    => /\ cropped_size[1] <= tile_size => tile_layout = <<1, TrivialCount>>
       /\ (cropped_size[1] > tile_size /\ cropped_size[2] <= tile_size)
            => tile_layout = <<TrivialCount, 1>>
       /\ ((cropped_size[1] <= tile_size \/ cropped_size[2] <= tile_size)
             /\ PositiveCanvas)
            => (tile_layout[1] >= 1 /\ tile_layout[2] >= 1)

\* C3's case: a wide, low canvas solved into more than one column.
C3_Witness ==
    /\ pc = "done"
    /\ cropped_size[1] > tile_size /\ cropped_size[2] <= tile_size
    /\ tile_layout[1] > 1 /\ tile_layout[2] = 1

\* The grid's cells <<column, row>> in row-major order.
RowMajor ==
    [k \in 1..(tile_layout[1] * tile_layout[2]) |->
        <<(k - 1) % tile_layout[1], (k - 1) \div tile_layout[1]>>]

\* The cell's identifier "{row},{column}" is a line of the exclusion list.
Excluded(cell) == \E e \in exclude : e = Str(cell[2]) \o <<",">> \o Str(cell[1])

ExpectedCells ==
    LET Kept(cell) == ~Excluded(cell)
    IN  SelectSeq(RowMajor, Kept)

\* C5: a successful run emits a ground overlay for exactly the cells that are
\* not excluded, each once and in row-major order, and writes a tile file for
\* exactly those cells.
C5_ExactlyNonExcludedRowMajor ==
    pc = "done"
    => /\ [k \in 1..Len(entries) |-> <<entries[k].t_x, entries[k].t_y>>] = ExpectedCells
       /\ files = {ExpectedCells[k] : k \in 1..Len(ExpectedCells)}

\* C5's case: layout (2, 1) with the cell of row 0, column 1 excluded leaves
\* the one entry of cell (0, 0).
C5_Witness ==
    /\ pc = "done"
    /\ tile_layout = <<2, 1>>
    /\ exclude = {<<"0", ",", "1">>}
    /\ Len(entries) = 1
    /\ entries[1].t_x = 0 /\ entries[1].t_y = 0

\* The pixels of the cropped canvas.
CanvasPixels ==
    (border..(img_size[1] - border - 1)) \X (border..(img_size[2] - border - 1))

InRect(px, c) ==
    /\ c.offset[1] <= px[1] /\ px[1] < c.offset[1] + c.size[1]
    /\ c.offset[2] <= px[2] /\ px[2] < c.offset[2] + c.size[2]

\* C9: with nothing excluded, every pixel of the cropped canvas lies in
\* exactly one tile rectangle.
C9_TilesPartitionCanvas ==
    (pc = "done" /\ exclude = {})
    => \A px \in CanvasPixels :
          Cardinality({k \in 1..Len(calls) : InRect(px, calls[k])}) = 1

\* C10: for a border >= 0 that leaves a canvas with positive dimensions,
\* every rectangle handed to create_tile starts at a non-negative offset and
\* ends within the image less the border on both axes, and the out-of-range
\* branch is never taken.
C10_ReadsWithinImage ==
    (border >= 0 /\ PositiveCanvas)
    => /\ ~range_error
       /\ \A k \in 1..Len(calls) :
             /\ calls[k].offset[1] >= 0 /\ calls[k].offset[2] >= 0
             /\ calls[k].offset[1] + calls[k].size[1] <= img_size[1] - border
             /\ calls[k].offset[2] + calls[k].size[2] <= img_size[2] - border

\* C10's case: a cropped run of several tiles whose last tile ends exactly
\* at the crop's right edge.
C10_Witness ==
    /\ pc = "done"
    /\ border > 0
    /\ Len(calls) > 1
    /\ calls[Len(calls)].offset[1] > border
    /\ calls[Len(calls)].offset[1] + calls[Len(calls)].size[1] = img_size[1] - border


\* ------------------------------------------------- properties: the bounds

\* C4: the bounds computation fails whenever the row rotation or the column
\* rotation is not zero; otherwise west and north are the image of the
\* rectangle's top-left corner and east and south the image of its
\* bottom-right corner, with geo_x = origin_x + px * pixel_width and
\* geo_y = origin_y + py * pixel_height.
C4_BoundsOrRotationFailure ==
    p_pc = "done"
    => IF p_gt[3] # 0 \/ p_gt[5] # 0
       THEN p_result.raised
       ELSE /\ ~p_result.raised
            /\ p_result.west = p_gt[1] + p_offset[1] * p_gt[2]
            /\ p_result.north = p_gt[4] + p_offset[2] * p_gt[6]
            /\ p_result.east = p_gt[1] + (p_offset[1] + p_size[1]) * p_gt[2]
            /\ p_result.south = p_gt[4] + (p_offset[2] + p_size[2]) * p_gt[6]

\* C4's case: origin (0, 0), pixel width 1, pixel height -1, no rotation, the
\* rectangle from (0, 0) to (2, 2): north 0, south -2, east 2, west 0.
C4_Witness ==
    /\ p_pc = "done"
    /\ p_gt = <<0, 1, 0, 0, 0, -1>>
    /\ p_offset = <<0, 0>> /\ p_size = <<2, 2>>
    /\ p_result = [raised |-> FALSE, north |-> 0, east |-> 2, south |-> -2, west |-> 0]

\* --------------------------------------------------- properties: kml2kmz

\* Percent-encoding of a path as a file URL carries it: the space and the
\* percent sign escaped, every other character of the paths here literal.
RECURSIVE PercentEncode(_)
PercentEncode(p) ==
    IF p = <<>> THEN <<>>
    ELSE (CASE p[1] = " " -> <<"%", "2", "0">>
            [] p[1] = "%" -> <<"%", "2", "5">>
            [] OTHER -> <<p[1]>>) \o PercentEncode(Tail(p))

\* file:// followed by the percent-encoded absolute path.
FileUrl(p) == <<"f", "i", "l", "e", ":", "/", "/">> \o PercentEncode(p)

\* C6: an href that is file:// plus the percent-encoded absolute path of a
\* file is resolved to that absolute path and rewritten to files/<basename>.
C6_FileUrlResolvesToDecodedPath ==
    run = 1
    => \A k \in 1..Len(doc) : \A p \in DOMAIN fs :
          doc[k] = FileUrl(p)
          => /\ ~(z_pc = "failed" /\ z_error # "usage" /\ node = k - 1)
             /\ node >= k => (resolved[k] = p /\ hrefs[k] = FilesDir \o Basename(p))

\* C7: the second run, on the document the first run packed, ends like the
\* first: every reference resolved, the same rewritten references, the same
\* archive entries by name and content.
C7_SecondRunRepeatsFirst ==
    (run = 2 /\ z_pc \in {"done", "failed"})
    => /\ z_pc = "done"
       /\ hrefs = first.hrefs
       /\ zip_entries = first.entries

\* C8: a run that ends on an image found nowhere names the path, and leaves
\* no archive at the output path, or one that is not a finished archive.
C8_NoPartialArchiveAfterMissingImage ==
    (z_pc = "failed" /\ z_error = "missing")
    => /\ err_path # <<>>
       /\ zip_state \in {"absent", "unfinished"}

====
